---- MODULE Spec2Model ----
(***************************************************************************)
(* Model of examples/gcn_sem_run_classifier.py: convert_examples_to_features*)
(* (the entity-aware feature encoder and the entity co-occurrence graph     *)
(* builder), _truncate_seq_pair and convert_id_list_to_str.                 *)
(*                                                                          *)
(* Strings are sequences of characters; a token is a string.  The special   *)
(* tokens ([CLS], [SEP], <s1>, ...) are one-element sequences holding the   *)
(* whole literal, since nothing in the program looks inside them.           *)
(* Python lists are sequences; a Python index k is the TLA+ index k+1.      *)
(***************************************************************************)
EXTENDS Integers, Sequences, FiniteSets, TLC

VARIABLES
    examples,         \* parameter: the list of InputExample
    max_seq_length,   \* parameter
    output_mode,      \* parameter
    do_lower_case,    \* configuration of the tokenizer parameter
    ex_index,         \* index of the example the loop is at
    features,         \* the list of InputFeatures built so far
    entity_set,       \* set of entity keys
    entity_pair_set,  \* set of (e0, e1) tuples
    loc,              \* local variables of the last loop iteration
    pc,               \* "loop", "raised" or "returned"
    error,            \* the exception that left the function, or "none"
    graph,            \* entity_list, adjacency, degree, spectral once returned
    truncation,       \* a call of _truncate_seq_pair: its parameters and position
    caller,           \* main: the split being converted, the graph of the train split
    canon             \* two calls of convert_id_list_to_str: the id lists, the keys

vars == <<examples, max_seq_length, output_mode, do_lower_case, ex_index,
          features, entity_set, entity_pair_set, loc, pc, error, graph, truncation,
          caller, canon>>

----------------------------------------------------------------------------
(* Bounds of the explored inputs *)

MaxWords == 3
MaxExamples == 2
MaxSeqLen == 14
MaxTextB == 2
LongWords == 12
LongTextB == 8
MaxTruncLen == 5
MaxKeyLen == 3

----------------------------------------------------------------------------
(* Python primitives *)

Min(a, b) == IF a < b THEN a ELSE b
Max(a, b) == IF a > b THEN a ELSE b

\* seq[lo:hi] for any integers lo, hi (negative ones count from the end)
PySlice(seq, lo, hi) ==
    LET n == Len(seq)
        l == IF lo < 0 THEN Max(n + lo, 0) ELSE Min(lo, n)
        h == IF hi < 0 THEN Max(n + hi, 0) ELSE Min(hi, n)
    IN  IF l >= h THEN << >> ELSE SubSeq(seq, l + 1, h)

\* list.insert(i, x) for i >= 0: an index past the end appends
PyInsert(seq, i, x) ==
    LET k == Min(i, Len(seq))
    IN  SubSeq(seq, 1, k) \o <<x>> \o SubSeq(seq, k + 1, Len(seq))

\* [v] * n: the empty list when n <= 0
Repeat(v, n) == [i \in 1..Max(n, 0) |-> v]

\* ''.join(list of strings)
RECURSIVE PyJoin(_)
PyJoin(strs) ==
    IF strs = << >> THEN << >> ELSE Head(strs) \o PyJoin(Tail(strs))

\* str.lower() on the alphabet of the model
LowerChar(c) == IF c = "A" THEN "a" ELSE IF c = "B" THEN "b" ELSE c
PyLower(s) == [i \in 1..Len(s) |-> LowerChar(s[i])]

\* sub in s, for the two-character string '##'
HasDoubleHash(s) == \E i \in 1..(Len(s) - 1) : s[i] = "#" /\ s[i + 1] = "#"

\* s.replace('#', '')
StripHash(s) == SelectSeq(s, LAMBDA c : c # "#")

\* str.split(): the maximal runs of non-blank characters
RECURSIVE PySplitFrom(_, _, _)
PySplitFrom(s, i, word) ==
    IF i > Len(s)
    THEN IF word = << >> THEN << >> ELSE <<word>>
    ELSE IF s[i] = " "
         THEN (IF word = << >> THEN << >> ELSE <<word>>)
              \o PySplitFrom(s, i + 1, << >>)
         ELSE PySplitFrom(s, i + 1, Append(word, s[i]))
PySplit(s) == PySplitFrom(s, 1, << >>)

\* ' '.join(words)
RECURSIVE JoinBlank(_)
JoinBlank(words) ==
    IF words = << >> THEN << >>
    ELSE IF Len(words) = 1 THEN words[1]
    ELSE words[1] \o <<" ">> \o JoinBlank(Tail(words))

----------------------------------------------------------------------------
(* The tokenizer collaborator (pytorch_pretrained_bert.tokenization, not    *)
(* part of the file modelled here): tokenize(text, spans) and               *)
(* convert_tokens_to_ids(tokens), as the specification describes them.      *)

\* Subword pieces of one whitespace word: '#' is punctuation and stands
\* alone; inside a run of letters every letter after the first is a
\* continuation piece '##x'.  Lower-casing happens first when configured.
RECURSIVE PiecesFrom(_, _, _)
PiecesFrom(w, i, inRun) ==
    IF i > Len(w) THEN << >>
    ELSE IF w[i] = "#"
         THEN << <<"#">> >> \o PiecesFrom(w, i + 1, FALSE)
         ELSE << (IF inRun THEN <<"#", "#", w[i]>> ELSE <<w[i]>>) >>
              \o PiecesFrom(w, i + 1, TRUE)
WordPieces(word, lower) ==
    PiecesFrom(IF lower THEN PyLower(word) ELSE word, 1, FALSE)

RECURSIVE TokenizeWords(_, _)
TokenizeWords(words, lower) ==
    IF words = << >> THEN << >>
    ELSE WordPieces(Head(words), lower) \o TokenizeWords(Tail(words), lower)

\* tokenize(text): the subword tokens
Tokenize(text, lower) == TokenizeWords(PySplit(text), lower)

\* the realigned position of whitespace position p: the number of subword
\* tokens of the words before p
RealignPos(text, p, lower) ==
    Len(TokenizeWords(SubSeq(PySplit(text), 1, Min(p, Len(PySplit(text)))), lower))

\* tokenize(text, entity_pos): the subword tokens and the realigned spans
TokenizeWithPos(text, entity_pos, lower) ==
    [tokens |-> Tokenize(text, lower),
     pos    |-> [e \in 1..2 |->
                   <<RealignPos(text, entity_pos[e][1], lower),
                     RealignPos(text, entity_pos[e][2], lower)>>]]

CLS == <<"[CLS]">>
SEP == <<"[SEP]">>
S1  == <<"<s1>">>
E1  == <<"<e1>">>
S2  == <<"<s2>">>
E2  == <<"<e2>">>

\* the vocabulary: id 0 is the padding entry, every token has its own id
VocabId(tok) ==
    CASE tok = <<"a">>           -> 1
      [] tok = <<"A">>           -> 2
      [] tok = <<"c">>           -> 3
      [] tok = <<"#">>           -> 4
      [] tok = <<"#", "#", "b">> -> 12
      [] tok = S1                -> 5
      [] tok = E1                -> 6
      [] tok = S2                -> 7
      [] tok = E2                -> 8
      [] tok = CLS               -> 101
      [] tok = SEP               -> 102

ConvertTokensToIds(tokens) == [i \in 1..Len(tokens) |-> VocabId(tokens[i])]

----------------------------------------------------------------------------
(* convert_id_list_to_str *)

\* str(n) for n >= 0: the decimal digits
DigitChar(d) == <<"0", "1", "2", "3", "4", "5", "6", "7", "8", "9">>[d + 1]
RECURSIVE PyStr(_)
PyStr(n) ==
    IF n < 10 THEN <<DigitChar(n)>>
    ELSE PyStr(n \div 10) \o <<DigitChar(n % 10)>>

\* the digits of the ids one after the other, nothing between two ids
RECURSIVE ConvertIdListNoSeparator(_)
ConvertIdListNoSeparator(id_list) ==
    IF id_list = << >> THEN << >>
    ELSE PyStr(Head(id_list)) \o ConvertIdListNoSeparator(Tail(id_list))

RECURSIVE convert_id_list_to_str(_)
convert_id_list_to_str(id_list) ==
    IF id_list = << >> THEN << >>
    ELSE PyStr(Head(id_list)) \o <<"_">> \o convert_id_list_to_str(Tail(id_list))

----------------------------------------------------------------------------
(* _truncate_seq_pair: pops one token at a time from the longer list; a pop *)
(* from an empty list raises IndexError.                                    *)

RECURSIVE truncate_seq_pair(_, _, _)
truncate_seq_pair(tokens_a, tokens_b, max_length) ==
    IF Len(tokens_a) + Len(tokens_b) <= max_length
    THEN [a |-> tokens_a, b |-> tokens_b, raised |-> FALSE]
    ELSE IF Len(tokens_a) > Len(tokens_b)
         THEN truncate_seq_pair(SubSeq(tokens_a, 1, Len(tokens_a) - 1),
                                tokens_b, max_length)
         ELSE IF tokens_b = << >>
              THEN [a |-> tokens_a, b |-> tokens_b, raised |-> TRUE]
              ELSE truncate_seq_pair(tokens_a,
                                     SubSeq(tokens_b, 1, Len(tokens_b) - 1),
                                     max_length)

----------------------------------------------------------------------------
(* The steps of one loop iteration of convert_examples_to_features *)

\* the joined text of the whitespace span, lower-cased (lines 467-473)
OldEntity(text_a, span) ==
    PyLower(PyJoin(PySlice(PySplit(text_a), span[1], span[2])))

\* the joined text of the realigned subword span (lines 469-470)
NewEntity(tokens_a, span) == PyJoin(PySlice(tokens_a, span[1], span[2]))

\* lines 475-477: when either text holds '##', every '#' leaves both texts
StripMarkers(new_entity0, new_entity1) ==
    IF HasDoubleHash(new_entity0) \/ HasDoubleHash(new_entity1)
    THEN <<StripHash(new_entity0), StripHash(new_entity1)>>
    ELSE <<new_entity0, new_entity1>>

\* the two assertions of lines 480-481
AlignmentHolds(text_a, old_entity_pos, tokens_a, new_entity_pos) ==
    LET new == StripMarkers(NewEntity(tokens_a, new_entity_pos[1]),
                            NewEntity(tokens_a, new_entity_pos[2]))
    IN  /\ OldEntity(text_a, old_entity_pos[1]) = new[1]
        /\ OldEntity(text_a, old_entity_pos[2]) = new[2]

\* <s2> inserted as if one marker stood before it, not two
InsertMarkersOneShift(tokens_a, new_entity_pos) ==
    LET entity1_start == new_entity_pos[1][1]
        entity1_end   == new_entity_pos[1][2]
        entity2_start == new_entity_pos[2][1]
        entity2_end   == new_entity_pos[2][2]
        t1 == PyInsert(tokens_a, entity1_start, S1)
        t2 == PyInsert(t1, entity1_end + 1, E1)
        t3 == PyInsert(t2, entity2_start + 1, S2)
        t4 == PyInsert(t3, entity2_end + 3, E2)
    IN  [tokens |-> t4,
         pos    |-> << <<entity1_start, entity1_end + 1 + 1>>,
                       <<entity2_start + 2, entity2_end + 3 + 1>> >>]

\* the end of entity 2 recomputed without its end marker
InsertMarkersShortSpan(tokens_a, new_entity_pos) ==
    LET entity1_start == new_entity_pos[1][1]
        entity1_end   == new_entity_pos[1][2]
        entity2_start == new_entity_pos[2][1]
        entity2_end   == new_entity_pos[2][2]
        t1 == PyInsert(tokens_a, entity1_start, S1)
        t2 == PyInsert(t1, entity1_end + 1, E1)
        t3 == PyInsert(t2, entity2_start + 2, S2)
        t4 == PyInsert(t3, entity2_end + 3, E2)
    IN  [tokens |-> t4,
         pos    |-> << <<entity1_start, entity1_end + 1 + 1>>,
                       <<entity2_start + 2, entity2_end + 3>> >>]

\* lines 495-505: the four insertions and the recomputed spans
InsertMarkers(tokens_a, new_entity_pos) ==
    LET entity1_start == new_entity_pos[1][1]
        entity1_end   == new_entity_pos[1][2]
        entity2_start == new_entity_pos[2][1]
        entity2_end   == new_entity_pos[2][2]
        t1 == PyInsert(tokens_a, entity1_start, S1)
        t2 == PyInsert(t1, entity1_end + 1, E1)
        t3 == PyInsert(t2, entity2_start + 2, S2)
        t4 == PyInsert(t3, entity2_end + 3, E2)
    IN  [tokens |-> t4,
         pos    |-> << <<entity1_start, entity1_end + 1 + 1>>,
                       <<entity2_start + 2, entity2_end + 3 + 1>> >>]

\* line 507
Overflows(new_entity_pos, msl) == new_entity_pos[2][2] > msl - 2 - 1

\* lines 510-520: tokens_b is << >> where the code has None
TruncateStep(tokens_a, text_b, msl, lower) ==
    IF text_b # << >>
    THEN truncate_seq_pair(tokens_a, Tokenize(text_b, lower), msl - 3)
    ELSE [a |-> IF Len(tokens_a) > msl - 2
                THEN PySlice(tokens_a, 0, msl - 2) ELSE tokens_a,
          b |-> << >>, raised |-> FALSE]

\* lines 540-545
PackTokens(tokens_a, tokens_b) ==
    <<CLS>> \o tokens_a \o <<SEP>>
    \o (IF tokens_b # << >> THEN tokens_b \o <<SEP>> ELSE << >>)

\* the separator that closes the secondary text left in segment 0
SegmentIdsOpenEnd(tokens_a, tokens_b) ==
    Repeat(0, Len(tokens_a) + 2)
    \o (IF tokens_b # << >> THEN Repeat(1, Len(tokens_b)) \o <<0>> ELSE << >>)

SegmentIds(tokens_a, tokens_b) ==
    Repeat(0, Len(tokens_a) + 2)
    \o (IF tokens_b # << >> THEN Repeat(1, Len(tokens_b) + 1) ELSE << >>)

\* the padding filled with ones
PadOnes(list, real_len, msl) == list \o Repeat(1, msl - real_len)

\* lines 553-557: list + [0] * (max_seq_length - len(input_ids))
Pad(list, real_len, msl) == list \o Repeat(0, msl - real_len)

\* the mask written at i, without the offset for [CLS]
EntityMaskNoOffset(n, new_entity_pos) ==
    [k \in 1..n |->
       IF \E e \in 1..2 : new_entity_pos[e][1] <= k - 1 /\ k - 1 < new_entity_pos[e][2]
       THEN 1 ELSE 0]

\* lines 566-573: entity_mask[i+1] = 1 for i in range(start, end)
EntityMask(n, new_entity_pos) ==
    [k \in 1..n |->
       IF \E e \in 1..2 : new_entity_pos[e][1] <= k - 2 /\ k - 2 < new_entity_pos[e][2]
       THEN 1 ELSE 0]

\* lines 582-589: the inside-span tags, entity 2 written last
InsideTags(n, new_entity_pos) ==
    [k \in 1..n |->
       IF new_entity_pos[2][1] <= k - 2 /\ k - 2 < new_entity_pos[2][2] THEN 2
       ELSE IF new_entity_pos[1][1] <= k - 2 /\ k - 2 < new_entity_pos[1][2] THEN 1
       ELSE 0]

\* the largest index written by the two loops above, -1 when none is
MaxSpanWrite(new_entity_pos) ==
    LET w(e) == IF new_entity_pos[e][1] < new_entity_pos[e][2]
                THEN new_entity_pos[e][2] ELSE -1
    IN  Max(w(1), w(2))

\* list[i] = v for a Python index i within the list
PySet(list, i, v) == [list EXCEPT ![i + 1] = v]

\* lines 591-600: the four boundary assignments, in program order
BoundaryTags(n, new_entity_pos) ==
    LET z  == Repeat(0, n)
        b1 == PySet(z, new_entity_pos[1][1] + 1, 1)
        b2 == PySet(b1, new_entity_pos[1][2] + 1, 2)
        b3 == PySet(b2, new_entity_pos[2][1] + 1, 1)
        b4 == PySet(b3, new_entity_pos[2][2] + 1, 2)
    IN  b4

\* the end tags written two positions further
MaxBoundaryWriteFar(new_entity_pos) ==
    Max(Max(new_entity_pos[1][1], new_entity_pos[1][2]),
        Max(new_entity_pos[2][1], new_entity_pos[2][2])) + 3

\* the largest index written by the four assignments
MaxBoundaryWrite(new_entity_pos) ==
    Max(Max(new_entity_pos[1][1], new_entity_pos[1][2]),
        Max(new_entity_pos[2][1], new_entity_pos[2][2])) + 1

\* lines 602-623: the signed distance to one span
SpanDistance(n, span) ==
    [k \in 1..n |->
       LET i == k - 1
       IN  IF i < span[1] THEN i - span[1]
           ELSE IF i < span[2] THEN 0
           ELSE i - span[2] + 1]

\* the assertions written with the wrong comparison
LengthAssertsAtLeast(arrays, msl) == \A x \in arrays : Len(x) >= msl

\* lines 629-636
LengthAsserts(arrays, msl) == \A x \in arrays : Len(x) = msl

\* line 457: label -> index in label_list (0-based, the last one wins)
LabelIndex(label_list, label) ==
    (CHOOSE i \in 1..Len(label_list) :
        /\ label_list[i] = label
        /\ \A j \in (i + 1)..Len(label_list) : label_list[j] # label) - 1

\* float(label): the strings of the model that parse as numbers
FloatParses(label) == label \in {"0", "1"}
FloatOf(label) == IF label = "0" THEN 0 ELSE 1

\* a label missing from the list resolved to -1 instead of raising
ResolveLabelLenient(mode, label_list, label) ==
    IF mode = "classification"
    THEN IF \E i \in 1..Len(label_list) : label_list[i] = label
         THEN [exc |-> "none", label_id |-> LabelIndex(label_list, label)]
         ELSE [exc |-> "none", label_id |-> -1]
    ELSE IF mode = "regression"
    THEN IF FloatParses(label)
         THEN [exc |-> "none", label_id |-> FloatOf(label)]
         ELSE [exc |-> "ValueError", label_id |-> -1]
    ELSE [exc |-> "KeyError", label_id |-> -1]

\* lines 637-643: the label id, or the exception raised
ResolveLabel(mode, label_list, label) ==
    IF mode = "classification"
    THEN IF \E i \in 1..Len(label_list) : label_list[i] = label
         THEN [exc |-> "none", label_id |-> LabelIndex(label_list, label)]
         ELSE [exc |-> "KeyError", label_id |-> -1]
    ELSE IF mode = "regression"
    THEN IF FloatParses(label)
         THEN [exc |-> "none", label_id |-> FloatOf(label)]
         ELSE [exc |-> "ValueError", label_id |-> -1]
    ELSE [exc |-> "KeyError", label_id |-> -1]

\* What stops at a pdb.set_trace() breakpoint does next is up to whoever is
\* at the terminal: "continue" resumes the program, "quit" (or the end of
\* the input) raises BdbQuit at the next line.
DebuggerOutcomes == {"continue", "quit"}

\* One pass through the loop body (lines 462-672) for one example.
\* reached: how far the body ran; exc: the exception that left it.
\* loc: the local variables as the pass left them (marked: tokens_a right
\* after the insertions of lines 498-505, before any truncation).
\* The test of line 484 compares the entity texts with 'nuturingrole',
\* which no text over the alphabet of the model equals.
LoopBody(example, label_list, msl, mode, lower, dbg_align, dbg_overflow) ==
    LET old_entity_pos == example.entity_pos
        tok      == TokenizeWithPos(example.text_a, example.entity_pos, lower)
        align_ok == AlignmentHolds(example.text_a, old_entity_pos,
                                   tok.tokens, tok.pos)
        marked   == InsertMarkers(tok.tokens, tok.pos)
        new_entity_pos == marked.pos
        overflow == Overflows(new_entity_pos, msl)
        trunc    == TruncateStep(marked.tokens, example.text_b, msl, lower)
        tokens_a == trunc.a
        tokens_b == trunc.b
        tokens   == PackTokens(tokens_a, tokens_b)
        real_len == Len(tokens)
        input_ids   == Pad(ConvertTokensToIds(tokens), real_len, msl)
        input_mask  == Pad(Repeat(1, real_len), real_len, msl)
        segment_ids == Pad(SegmentIds(tokens_a, tokens_b), real_len, msl)
        n  == Len(input_ids)
        entity_token_ids0 ==
            PySlice(input_ids, new_entity_pos[1][1], new_entity_pos[1][2])
        entity_token_ids1 ==
            PySlice(input_ids, new_entity_pos[2][1], new_entity_pos[2][2])
        e0 == convert_id_list_to_str(entity_token_ids0)
        e1 == convert_id_list_to_str(entity_token_ids1)
        entity_mask      == EntityMask(n, new_entity_pos)
        entity_seg_pos   == InsideTags(n, new_entity_pos)
        entity_seg_pos_  == BoundaryTags(n, new_entity_pos)
        entity_span1_pos == SpanDistance(n, new_entity_pos[1])
        entity_span2_pos == SpanDistance(n, new_entity_pos[2])
        lab == ResolveLabel(mode, label_list, example.label)
        reached ==
            IF ~align_ok /\ dbg_align = "quit" THEN "align"
            ELSE IF overflow /\ dbg_overflow = "quit" THEN "overflow"
            ELSE IF trunc.raised THEN "truncate"
            ELSE IF MaxSpanWrite(new_entity_pos) >= n THEN "mask"
            ELSE IF MaxBoundaryWrite(new_entity_pos) >= n THEN "tags"
            ELSE IF ~LengthAsserts({input_ids, input_mask, segment_ids,
                                    entity_mask, entity_seg_pos, entity_seg_pos_,
                                    entity_span1_pos, entity_span2_pos}, msl)
                 THEN "assert"
            ELSE IF lab.exc # "none" THEN "label"
            ELSE "end"
        exc == CASE reached \in {"align", "overflow"} -> "BdbQuit"
                 [] reached \in {"truncate", "mask", "tags"} -> "IndexError"
                 [] reached = "assert" -> "AssertionError"
                 [] reached = "label" -> lab.exc
                 [] reached = "end" -> "none"
        packed  == reached \notin {"align", "overflow", "truncate"}
        tagged  == reached \in {"assert", "label", "end"}
    IN  [reached  |-> reached,
         exc      |-> exc,
         added    |-> packed,
         e0       |-> IF packed THEN e0 ELSE << >>,
         e1       |-> IF packed THEN e1 ELSE << >>,
         feature  |-> IF reached = "end"
                      THEN [input_ids        |-> input_ids,
                            input_mask       |-> input_mask,
                            segment_ids      |-> segment_ids,
                            label_id         |-> lab.label_id,
                            entity_mask      |-> entity_mask,
                            entity_seg_pos   |-> entity_seg_pos_,
                            entity_span1_pos |-> entity_span1_pos,
                            entity_span2_pos |-> entity_span2_pos]
                      ELSE << >>,
         loc      |-> [ran            |-> TRUE,
                       example        |-> example,
                       reached        |-> reached,
                       marked         |-> IF reached = "align" THEN << >>
                                          ELSE marked.tokens,
                       tokens_a_      |-> tok.tokens,
                       new_entity_pos_ |-> tok.pos,
                       align_ok       |-> align_ok,
                       new_entity_pos |-> IF reached = "align" THEN tok.pos
                                          ELSE new_entity_pos,
                       overflow       |-> reached # "align" /\ overflow,
                       tokens_a       |-> IF reached = "align" THEN tok.tokens
                                          ELSE IF reached = "overflow"
                                          THEN marked.tokens ELSE tokens_a,
                       tokens_b       |-> IF packed THEN tokens_b ELSE << >>,
                       tokens         |-> IF packed THEN tokens ELSE << >>,
                       entity_token_ids0 |-> IF packed THEN entity_token_ids0
                                             ELSE << >>,
                       entity_token_ids1 |-> IF packed THEN entity_token_ids1
                                             ELSE << >>,
                       entity_seg_pos |-> IF tagged THEN entity_seg_pos ELSE << >>]]

----------------------------------------------------------------------------
(* Graph finalization, lines 673-683 *)

\* list(entity_set): some order of the set, which one is up to the hashing
ListsOf(S) ==
    {l \in [1..Cardinality(S) -> S] :
        \A i, j \in 1..Cardinality(S) : l[i] = l[j] => i = j}

\* entity_list.index(x), as a 1-based index
IndexOf(entity_list, x) ==
    CHOOSE i \in 1..Len(entity_list) :
        /\ entity_list[i] = x
        /\ \A j \in 1..(i - 1) : entity_list[j] # x

\* lines 674-677
Adjacency(entity_list, pairs) ==
    [i \in 1..Len(entity_list) |-> [j \in 1..Len(entity_list) |->
        IF \E p \in pairs :
              \/ IndexOf(entity_list, p[1]) = i /\ IndexOf(entity_list, p[2]) = j
              \/ IndexOf(entity_list, p[2]) = i /\ IndexOf(entity_list, p[1]) = j
        THEN 1 ELSE 0]]

RECURSIVE RowSum(_, _)
RowSum(row, k) == IF k = 0 THEN 0 ELSE row[k] + RowSum(row, k - 1)

\* the degrees listed in the reverse of the order of the rows
DegreeReversed(adjacency) ==
    [i \in 1..Len(adjacency) |->
       RowSum(adjacency[Len(adjacency) + 1 - i], Len(adjacency))]

\* line 678: adjacency.mm(ones)
Degree(adjacency) ==
    [i \in 1..Len(adjacency) |-> RowSum(adjacency[i], Len(adjacency))]

\* the normalization applied to the adjacency without its self-loops
SpectralNoSelfLoop(adjacency, degree) ==
    [i \in 1..Len(adjacency) |-> [j \in 1..Len(adjacency) |->
        [num  |-> adjacency[i][j],
         den2 |-> (degree[i] + 1) * (degree[j] + 1)]]]

\* lines 679-682: entry (i, j) of d.mm(adjacency_).mm(d) is
\* (adjacency[i][j] + [i = j]) / sqrt((degree[i] + 1) * (degree[j] + 1));
\* it is kept as the numerator and the square of the denominator.
Spectral(adjacency, degree) ==
    [i \in 1..Len(adjacency) |-> [j \in 1..Len(adjacency) |->
        [num  |-> adjacency[i][j] + (IF i = j THEN 1 ELSE 0),
         den2 |-> (degree[i] + 1) * (degree[j] + 1)]]]

----------------------------------------------------------------------------
(* The inputs explored *)

Lexicon == {<<"a">>, <<"A", "b">>, <<"c", "#">>}

WordLists(lo, hi) == UNION {[1..n -> Lexicon] : n \in lo..hi}

\* half-open whitespace spans of a text of n words, never empty
Spans(n) == {sp \in (0..n) \X (0..n) : sp[1] < sp[2]}

\* The annotated span pairs: entity 1 ends at or before the start of
\* entity 2 (the input contract of the marker injection; the SemEval
\* annotation read by SemProcessor puts e1 before e2).
SpanPairs(n) == {pq \in Spans(n) \X Spans(n) : pq[1][2] <= pq[2][1]}

TextsB == {JoinBlank(Repeat(<<"a">>, k)) : k \in 0..MaxTextB}

Labels == {"0", "1", "x"}

LabelList == <<"0", "1">>

OutputModes == {"classification", "regression", "ranking"}

Examples(wordLists, textsB, labels) ==
    UNION {[text_a : {JoinBlank(ws)}, text_b : textsB, label : labels,
            entity_pos : SpanPairs(Len(ws))] : ws \in wordLists}

ListsUpTo(S, lo, hi) == UNION {[1..n -> S] : n \in lo..hi}

\* One example of any text, span pair and secondary text, at any length.
EncodingInputs ==
    [examples       : ListsUpTo(Examples(WordLists(1, MaxWords), TextsB, {"1"}), 0, 1),
     max_seq_length : 1..MaxSeqLen,
     output_mode    : {"classification"},
     do_lower_case  : BOOLEAN]

\* the two lengths of the runs on two-word texts: the longest ones
\* overflow at the first and every one fits the second
ShortTextLengths == {MaxSeqLen - 4, MaxSeqLen}

\* One two-word example with any label, in any output mode.
LabelInputs ==
    [examples       : ListsUpTo(Examples(WordLists(2, 2), {<< >>}, Labels), 1, 1),
     max_seq_length : ShortTextLengths,
     output_mode    : OutputModes,
     do_lower_case  : BOOLEAN]

\* Several two-word examples.
BatchInputs ==
    [examples       : ListsUpTo(Examples(WordLists(2, 2), {<< >>}, {"1"}), 2, MaxExamples),
     max_seq_length : ShortTextLengths,
     output_mode    : {"classification"},
     do_lower_case  : BOOLEAN]

\* the words of the runs on the graph: no capital and no multi-piece word,
\* so that every example aligns
PlainLexicon == {<<"a">>, <<"c", "#">>}

\* Two aligned examples of two or three words, at a length every one fits:
\* the same mention occurs at several positions and after several tokens.
ContextInputs ==
    [examples       : ListsUpTo(
                        UNION {[text_a : {JoinBlank(ws)}, text_b : {<< >>},
                                label : {"1"}, entity_pos : SpanPairs(Len(ws))] :
                               ws \in UNION {[1..n -> PlainLexicon] : n \in 2..MaxWords}},
                        2, 2),
     max_seq_length : {MaxSeqLen},
     output_mode    : {"classification"},
     do_lower_case  : {TRUE}]

\* secondary texts of LongTextB words: two runs of three equal words, then
\* 'a' up to the length
RunTextsB ==
    {JoinBlank(Repeat(v, 3) \o Repeat(w, 3) \o Repeat(<<"a">>, LongTextB - 6)) :
       v \in {<<"a">>, <<"c">>}, w \in {<<"a">>, <<"c">>}}

\* One or two examples of a long primary text whose entities are its last
\* two words, with a long secondary text, at the smallest length that
\* passes the overflow check: the pair truncation cuts the primary text
\* before its entities.
LongPairInputs ==
    [examples       : ListsUpTo(
                        [text_a : {JoinBlank(Repeat(<<"a">>, LongWords))},
                         text_b : RunTextsB, label : {"1"},
                         entity_pos : {<< <<LongWords - 2, LongWords - 1>>,
                                          <<LongWords - 1, LongWords>> >>}],
                        1, 2),
     max_seq_length : {LongWords + 4 + 3},
     output_mode    : {"classification"},
     do_lower_case  : {TRUE}]

Inputs == EncodingInputs \cup LabelInputs \cup BatchInputs \cup ContextInputs
          \cup LongPairInputs

NoLocals ==
    [ran |-> FALSE, example |-> << >>, reached |-> "none",
     marked |-> << >>, tokens_a_ |-> << >>,
     new_entity_pos_ |-> << >>, align_ok |-> TRUE, new_entity_pos |-> << >>,
     overflow |-> FALSE, tokens_a |-> << >>, tokens_b |-> << >>,
     tokens |-> << >>, entity_token_ids0 |-> << >>,
     entity_token_ids1 |-> << >>, entity_seg_pos |-> << >>]

NoGraph == [entity_list |-> << >>, adjacency |-> << >>, degree |-> << >>,
            spectral |-> << >>]

\* main before its first conversion returned
NoCaller == [split |-> "train", train |-> NoGraph]

\* no call of convert_id_list_to_str is followed on its own
NoCanon == [pc |-> "idle", id_list_a |-> << >>, id_list_b |-> << >>,
            key_a |-> << >>, key_b |-> << >>]

\* no call of _truncate_seq_pair is followed step by step
NoTruncate == [tokens_a |-> << >>, tokens_b |-> << >>, max_length |-> 0,
               orig_a |-> << >>, orig_b |-> << >>, pc |-> "idle"]

Init ==
    /\ \E inp \in Inputs :
         /\ examples = inp.examples
         /\ max_seq_length = inp.max_seq_length
         /\ output_mode = inp.output_mode
         /\ do_lower_case = inp.do_lower_case
    /\ ex_index = 0
    /\ features = << >>
    /\ entity_set = {}
    /\ entity_pair_set = {}
    /\ loc = NoLocals
    /\ pc = "loop"
    /\ error = "none"
    /\ graph = NoGraph
    /\ truncation = NoTruncate
    /\ caller = NoCaller
    /\ canon = NoCanon

\* the sets holding the keys of the latest example only
ConvertExampleKeepLast ==
    /\ pc = "loop"
    /\ ex_index < Len(examples)
    /\ \E dbg_align, dbg_overflow \in DebuggerOutcomes :
         \E r \in {LoopBody(examples[ex_index + 1], LabelList, max_seq_length,
                            output_mode, do_lower_case, dbg_align, dbg_overflow)} :
             /\ loc' = r.loc
             /\ entity_set' = IF r.added THEN {r.e0, r.e1} ELSE entity_set
             /\ entity_pair_set' = IF r.added THEN {<<r.e0, r.e1>>}
                                   ELSE entity_pair_set
             /\ IF r.exc = "none"
                THEN /\ features' = Append(features, r.feature)
                     /\ ex_index' = ex_index + 1
                     /\ UNCHANGED <<pc, error>>
                ELSE /\ pc' = "raised"
                     /\ error' = r.exc
                     /\ UNCHANGED <<features, ex_index>>
    /\ UNCHANGED <<examples, max_seq_length, output_mode, do_lower_case, graph,
                   truncation, caller, canon>>

\* one iteration of the loop of line 461
ConvertExample ==
    /\ pc = "loop"
    /\ ex_index < Len(examples)
    /\ \E dbg_align, dbg_overflow \in DebuggerOutcomes :
         \E r \in {LoopBody(examples[ex_index + 1], LabelList, max_seq_length,
                            output_mode, do_lower_case, dbg_align, dbg_overflow)} :
             /\ loc' = r.loc
             /\ entity_set' = IF r.added THEN entity_set \cup {r.e0, r.e1}
                              ELSE entity_set
             /\ entity_pair_set' = IF r.added
                                   THEN entity_pair_set \cup {<<r.e0, r.e1>>}
                                   ELSE entity_pair_set
             /\ IF r.exc = "none"
                THEN /\ features' = Append(features, r.feature)
                     /\ ex_index' = ex_index + 1
                     /\ UNCHANGED <<pc, error>>
                ELSE /\ pc' = "raised"
                     /\ error' = r.exc
                     /\ UNCHANGED <<features, ex_index>>
    /\ UNCHANGED <<examples, max_seq_length, output_mode, do_lower_case, graph,
                   truncation, caller, canon>>

\* the graph built whether or not the loop is over
FinalizeEarly ==
    /\ pc = "loop"
    /\ ex_index <= Len(examples)
    /\ \E entity_list \in ListsOf(entity_set) :
         LET adjacency == Adjacency(entity_list, entity_pair_set)
             degree    == Degree(adjacency)
         IN  graph' = [entity_list |-> entity_list,
                       adjacency   |-> adjacency,
                       degree      |-> degree,
                       spectral    |-> Spectral(adjacency, degree)]
    /\ pc' = "returned"
    /\ UNCHANGED <<examples, max_seq_length, output_mode, do_lower_case,
                   ex_index, features, entity_set, entity_pair_set, loc, error,
                   truncation, caller, canon>>

\* the loop is over: lines 673-683
Finalize ==
    /\ pc = "loop"
    /\ ex_index = Len(examples)
    /\ \E entity_list \in ListsOf(entity_set) :
         LET adjacency == Adjacency(entity_list, entity_pair_set)
             degree    == Degree(adjacency)
         IN  graph' = [entity_list |-> entity_list,
                       adjacency   |-> adjacency,
                       degree      |-> degree,
                       spectral    |-> Spectral(adjacency, degree)]
    /\ pc' = "returned"
    /\ UNCHANGED <<examples, max_seq_length, output_mode, do_lower_case,
                   ex_index, features, entity_set, entity_pair_set, loc, error,
                   truncation, caller, canon>>

Next == ConvertExample \/ Finalize

Spec == Init /\ [][Next]_vars

----------------------------------------------------------------------------
(* _truncate_seq_pair followed one loop iteration at a time, lines 693-700 *)

\* the token list of n distinct tokens first, first + 1, ...
TokenRun(first, n) == [i \in 1..n |-> first + i - 1]

\* Calls on short lists at every budget max_seq_length - 3 can give (a
\* negative one for max_seq_length < 3), and the call of the truncation
\* scenario of the specification: 100 primary tokens, 10 secondary tokens,
\* max_seq_length 20.
TruncateInputs ==
    [tokens_a   : {TokenRun(1, n) : n \in 0..MaxTruncLen},
     tokens_b   : {TokenRun(1001, n) : n \in 0..MaxTruncLen},
     max_length : (0 - 2)..(2 * MaxTruncLen)]
    \cup [tokens_a : {TokenRun(1, 100)}, tokens_b : {TokenRun(1001, 10)},
          max_length : {20 - 3}]

\* everything but the call of _truncate_seq_pair
callerVars == <<examples, max_seq_length, output_mode, do_lower_case, ex_index,
                features, entity_set, entity_pair_set, loc, pc, error, graph,
                caller, canon>>

InitTruncate ==
    /\ \E inp \in TruncateInputs :
         truncation = [tokens_a |-> inp.tokens_a, tokens_b |-> inp.tokens_b,
                  max_length |-> inp.max_length,
                  orig_a |-> inp.tokens_a, orig_b |-> inp.tokens_b,
                  pc |-> "while"]
    /\ examples = << >>
    /\ max_seq_length = 0
    /\ output_mode = "classification"
    /\ do_lower_case = TRUE
    /\ ex_index = 0
    /\ features = << >>
    /\ entity_set = {}
    /\ entity_pair_set = {}
    /\ loc = NoLocals
    /\ pc = "truncate"
    /\ error = "none"
    /\ graph = NoGraph
    /\ caller = NoCaller
    /\ canon = NoCanon

\* line 694
total_length == Len(truncation.tokens_a) + Len(truncation.tokens_b)

\* the loop left one token above the budget
TruncateBreakEarly ==
    /\ truncation.pc = "while"
    /\ total_length <= truncation.max_length + 1
    /\ truncation' = [truncation EXCEPT !.pc = "done"]
    /\ UNCHANGED callerVars

\* lines 695-696
TruncateBreak ==
    /\ truncation.pc = "while"
    /\ total_length <= truncation.max_length
    /\ truncation' = [truncation EXCEPT !.pc = "done"]
    /\ UNCHANGED callerVars

\* the primary list popped on a tie as well
TruncatePopANotShorter ==
    /\ truncation.pc = "while"
    /\ total_length > truncation.max_length
    /\ Len(truncation.tokens_a) >= Len(truncation.tokens_b)
    /\ truncation.tokens_a # << >>
    /\ truncation' = [truncation EXCEPT !.tokens_a = SubSeq(@, 1, Len(@) - 1)]
    /\ UNCHANGED callerVars

\* lines 697-698
TruncatePopA ==
    /\ truncation.pc = "while"
    /\ total_length > truncation.max_length
    /\ Len(truncation.tokens_a) > Len(truncation.tokens_b)
    /\ truncation' = [truncation EXCEPT !.tokens_a = SubSeq(@, 1, Len(@) - 1)]
    /\ UNCHANGED callerVars

\* lines 699-700, tokens_b not empty
TruncatePopB ==
    /\ truncation.pc = "while"
    /\ total_length > truncation.max_length
    /\ ~(Len(truncation.tokens_a) > Len(truncation.tokens_b))
    /\ truncation.tokens_b # << >>
    /\ truncation' = [truncation EXCEPT !.tokens_b = SubSeq(@, 1, Len(@) - 1)]
    /\ UNCHANGED callerVars

\* lines 699-700, tokens_b empty: pop raises IndexError
TruncatePopEmpty ==
    /\ truncation.pc = "while"
    /\ total_length > truncation.max_length
    /\ ~(Len(truncation.tokens_a) > Len(truncation.tokens_b))
    /\ truncation.tokens_b = << >>
    /\ truncation' = [truncation EXCEPT !.pc = "raised"]
    /\ UNCHANGED callerVars

NextTruncate ==
    TruncateBreak \/ TruncatePopA \/ TruncatePopB \/ TruncatePopEmpty

\* the loop is sequential code: an iteration that can run does run
TruncateSpec ==
    InitTruncate /\ [][NextTruncate]_vars /\ WF_vars(NextTruncate)

----------------------------------------------------------------------------
(* main: the train split converted at lines 995-996, then the eval split at *)
(* lines 1025-1026, each by its own call                                    *)

\* the examples of a split: some two-word examples
SplitExamples ==
    ListsUpTo(UNION {[text_a : {JoinBlank(ws)}, text_b : {<< >>}, label : {"1"},
                      entity_pos : SpanPairs(Len(ws))] :
                     ws \in [1..2 -> PlainLexicon]},
              1, MaxExamples)

\* the call of line 995 starts
InitSplits ==
    /\ examples \in SplitExamples
    /\ max_seq_length = MaxSeqLen
    /\ output_mode = "classification"
    /\ do_lower_case = TRUE
    /\ ex_index = 0
    /\ features = << >>
    /\ entity_set = {}
    /\ entity_pair_set = {}
    /\ loc = NoLocals
    /\ pc = "loop"
    /\ error = "none"
    /\ graph = NoGraph
    /\ truncation = NoTruncate
    /\ caller = NoCaller
    /\ canon = NoCanon

\* a second call that goes on with the sets of the first
EvalCallKeepSets ==
    /\ pc = "returned"
    /\ caller.split = "train"
    /\ examples' \in SplitExamples
    /\ ex_index' = 0
    /\ features' = << >>
    /\ loc' = NoLocals
    /\ pc' = "loop"
    /\ graph' = NoGraph
    /\ caller' = [split |-> "eval", train |-> graph]
    /\ UNCHANGED <<max_seq_length, output_mode, do_lower_case, error,
                   entity_set, entity_pair_set, truncation, canon>>

\* the call of line 995 has returned into train_entity_list, train_degree and
\* train_spectral; the call of lines 1025-1026 starts: lines 457-460
EvalCall ==
    /\ pc = "returned"
    /\ caller.split = "train"
    /\ examples' \in SplitExamples
    /\ ex_index' = 0
    /\ features' = << >>
    /\ entity_set' = {}
    /\ entity_pair_set' = {}
    /\ loc' = NoLocals
    /\ pc' = "loop"
    /\ graph' = NoGraph
    /\ caller' = [split |-> "eval", train |-> graph]
    /\ UNCHANGED <<max_seq_length, output_mode, do_lower_case, error, truncation,
                   canon>>

NextSplits == ConvertExample \/ Finalize \/ EvalCall

SplitsSpec == InitSplits /\ [][NextSplits]_vars

----------------------------------------------------------------------------
(* convert_id_list_to_str applied to two id lists *)

\* ids whose digits run into one another when written side by side
KeyIds == {0, 1, 2, 3, 12, 23, 123}

\* the id lists of up to MaxKeyLen ids
KeyLists == ListsUpTo(KeyIds, 0, MaxKeyLen)

InitCanon ==
    /\ examples = << >>
    /\ max_seq_length = MaxSeqLen
    /\ output_mode = "classification"
    /\ do_lower_case = TRUE
    /\ ex_index = 0
    /\ features = << >>
    /\ entity_set = {}
    /\ entity_pair_set = {}
    /\ loc = NoLocals
    /\ pc = "canon"
    /\ error = "none"
    /\ graph = NoGraph
    /\ truncation = NoTruncate
    /\ caller = NoCaller
    /\ \E a, b \in KeyLists :
          canon = [pc |-> "call", id_list_a |-> a, id_list_b |-> b,
                   key_a |-> << >>, key_b |-> << >>]

\* lines 446-451, once for each of the two lists
Canonicalize ==
    /\ canon.pc = "call"
    /\ canon' = [canon EXCEPT !.pc = "done",
                              !.key_a = convert_id_list_to_str(canon.id_list_a),
                              !.key_b = convert_id_list_to_str(canon.id_list_b)]
    /\ UNCHANGED <<examples, max_seq_length, output_mode, do_lower_case, ex_index,
                   features, entity_set, entity_pair_set, loc, pc, error, graph,
                   truncation, caller>>

NextCanon == Canonicalize

CanonSpec == InitCanon /\ [][NextCanon]_vars

----------------------------------------------------------------------------
(* Properties *)

\* the last pass through the loop body produced a feature record
Produced == loc.ran /\ loc.reached = "end"

\* the record of that pass
Rec == features[Len(features)]

\* the arrays of a feature record
Channels(f) == {f.input_ids, f.input_mask, f.segment_ids, f.entity_mask,
                f.entity_seg_pos, f.entity_span1_pos, f.entity_span2_pos}

\* C1: every array of every feature record produced has length exactly
\* max_seq_length (the token ids, the two masks, the segment ids, the
\* boundary tags and the two distances of the record, and the inside-span
\* tags the pass computed), whatever max_seq_length, the length of the
\* primary text and the secondary text are.
FixedLength ==
    /\ \A k \in 1..Len(features) :
          \A x \in Channels(features[k]) : Len(x) = max_seq_length
    /\ Produced => Len(loc.entity_seg_pos) = max_seq_length

\* a record of a pair of texts, the primary one with multi-piece words,
\* that needed padding
FixedLengthWitness ==
    /\ Produced
    /\ loc.tokens_b # << >>
    /\ Len(loc.tokens) < max_seq_length
    /\ Len(loc.tokens_a_) > MaxWords

\* C2: in every record input_mask is 1 on the positions of the packed
\* tokens ([CLS], primary tokens, [SEP], secondary tokens, [SEP]) and 0 on
\* the padding; segment_ids is 0 from [CLS] to the first [SEP], 1 from the
\* first secondary token to the last [SEP], and 0 on the padding.
MaskConsistency ==
    Produced =>
      LET na == Len(loc.tokens_a)
          nb == Len(loc.tokens_b)
          real == Len(loc.tokens)
      IN  /\ loc.tokens = <<CLS>> \o loc.tokens_a \o <<SEP>>
                          \o (IF nb > 0 THEN loc.tokens_b \o <<SEP>> ELSE << >>)
          /\ \A k \in 1..max_seq_length :
               /\ Rec.input_mask[k] = (IF k <= real THEN 1 ELSE 0)
               /\ Rec.segment_ids[k] =
                    (IF k <= na + 2 THEN 0 ELSE IF k <= real THEN 1 ELSE 0)

\* a record with a secondary text and with padding
MaskConsistencyWitness ==
    /\ Produced
    /\ loc.tokens_b # << >>
    /\ Len(loc.tokens) < max_seq_length
    /\ Rec.segment_ids[Len(loc.tokens)] = 1

\* the markers were inserted in the last pass, for spans in the order the
\* injection assumes
Injected ==
    /\ loc.ran
    /\ loc.reached # "align"
    /\ loc.new_entity_pos_[1][2] <= loc.new_entity_pos_[2][1]

IsMarker(tok) == tok \in {S1, E1, S2, E2}

\* the subword tokens of entity e, before the markers
EntityTokens(e) ==
    SubSeq(loc.tokens_a_, loc.new_entity_pos_[e][1] + 1, loc.new_entity_pos_[e][2])

\* C3: for subword tokens T and spans [s1,e1), [s2,e2) with e1 <= s2 the
\* marked sequence is T[0:s1] <s1> T[s1:e1] <e1> T[e1:s2] <s2> T[s2:e2]
\* <e2> T[e2:], four tokens longer than T, and T again once the markers are
\* deleted.
MarkerInjection ==
    Injected =>
      LET T  == loc.tokens_a_
          s1 == loc.new_entity_pos_[1][1]
          e1 == loc.new_entity_pos_[1][2]
          s2 == loc.new_entity_pos_[2][1]
          e2 == loc.new_entity_pos_[2][2]
      IN  /\ loc.marked = SubSeq(T, 1, s1) \o <<S1>> \o SubSeq(T, s1 + 1, e1)
                          \o <<E1>> \o SubSeq(T, e1 + 1, s2) \o <<S2>>
                          \o SubSeq(T, s2 + 1, e2) \o <<E2>>
                          \o SubSeq(T, e2 + 1, Len(T))
          /\ Len(loc.marked) = Len(T) + 4
          /\ SelectSeq(loc.marked, LAMBDA t : ~IsMarker(t)) = T

\* markers around two entities that are apart, the second of several tokens
MarkerInjectionWitness ==
    /\ Injected
    /\ loc.new_entity_pos_[1][2] < loc.new_entity_pos_[2][1]
    /\ loc.new_entity_pos_[2][2] - loc.new_entity_pos_[2][1] > 1
    /\ Len(loc.marked) = Len(loc.tokens_a_) + 4

\* C4: after the injection with e1 <= s2 each recomputed span covers its
\* start marker, the subword tokens of its entity and its end marker, and
\* nothing else: entity 1 is [s1, e1 + 2), entity 2 is [s2 + 2, e2 + 4).
SpansCoverMarkers ==
    Injected =>
      LET M   == loc.marked
          pos == loc.new_entity_pos
      IN  /\ M[pos[1][1] + 1] = S1 /\ M[pos[1][2]] = E1
          /\ M[pos[2][1] + 1] = S2 /\ M[pos[2][2]] = E2
          /\ SubSeq(M, pos[1][1] + 1, pos[1][2]) = <<S1>> \o EntityTokens(1) \o <<E1>>
          /\ SubSeq(M, pos[2][1] + 1, pos[2][2]) = <<S2>> \o EntityTokens(2) \o <<E2>>
          /\ pos[1] = <<loc.new_entity_pos_[1][1], loc.new_entity_pos_[1][2] + 2>>
          /\ pos[2] = <<loc.new_entity_pos_[2][1] + 2, loc.new_entity_pos_[2][2] + 4>>

\* the spans of two entities that touch, the first of several tokens
SpansCoverMarkersWitness ==
    /\ Injected
    /\ loc.new_entity_pos_[1][2] = loc.new_entity_pos_[2][1]
    /\ loc.new_entity_pos_[1][2] - loc.new_entity_pos_[1][1] > 1
    /\ loc.new_entity_pos[2][2] - loc.new_entity_pos[2][1] = 3

\* the packed positions (Python indices) of the final span of entity e
PackedSpan(e) == (loc.new_entity_pos[e][1] + 1)..loc.new_entity_pos[e][2]

\* C5: the membership mask of a record is 1 at the packed positions of the
\* two final spans (markers included, one past the span in tokens_a because
\* of [CLS]) and 0 everywhere else; a span the truncation left whole holds
\* its start marker, its entity tokens and its end marker there; two
\* one-token entities give exactly 6 marked positions.
MembershipMask ==
    Produced =>
      /\ \A k \in 1..max_seq_length :
           Rec.entity_mask[k] =
             (IF k - 1 \in PackedSpan(1) \cup PackedSpan(2) THEN 1 ELSE 0)
      /\ \A e \in 1..2 :
           loc.new_entity_pos[e][2] <= Len(loc.tokens_a) =>
             [i \in 1..(2 + Len(EntityTokens(e))) |->
                loc.tokens[loc.new_entity_pos[e][1] + 1 + i]]
             = <<IF e = 1 THEN S1 ELSE S2>> \o EntityTokens(e)
               \o <<IF e = 1 THEN E1 ELSE E2>>
      /\ (Len(EntityTokens(1)) = 1 /\ Len(EntityTokens(2)) = 1) =>
           Cardinality({k \in 1..max_seq_length : Rec.entity_mask[k] # 0}) = 6

\* a record of two one-token entities that are apart, with padding
MembershipMaskWitness ==
    /\ Produced
    /\ Len(EntityTokens(1)) = 1
    /\ Len(EntityTokens(2)) = 1
    /\ loc.new_entity_pos_[1][2] < loc.new_entity_pos_[2][1]
    /\ Len(loc.tokens) < max_seq_length
    /\ Cardinality({k \in 1..max_seq_length : Rec.entity_mask[k] = 1}) = 6

\* the record comes from a pass that met neither breakpoint
ProducedClean == Produced /\ loc.align_ok /\ ~loc.overflow

\* C6 as claimed: the boundary tags of a record are the start sentinel on
\* the two start markers, the end sentinel on the two end markers and 0 on
\* every other position.  (Violated: the end sentinel is written one
\* position after the end marker, and the start sentinel of entity 2
\* overwrites the end sentinel of an entity 1 that touches it.)
BoundaryTagsOnMarkers ==
    ProducedClean =>
      \A k \in 1..max_seq_length :
        Rec.entity_seg_pos[k] =
          (IF k - 1 \in {loc.new_entity_pos[1][1] + 1, loc.new_entity_pos[2][1] + 1}
           THEN 1
           ELSE IF k - 1 \in {loc.new_entity_pos[1][2], loc.new_entity_pos[2][2]}
           THEN 2 ELSE 0)

NonDecreasing(seq) == \A k \in 1..(Len(seq) - 1) : seq[k] <= seq[k + 1]

\* the signed-distance channel of entity e in the record
DistanceChannel(e) ==
    IF e = 1 THEN Rec.entity_span1_pos ELSE Rec.entity_span2_pos

\* C7 as claimed: each signed-distance channel is non-decreasing, is 0 on
\* the packed positions of the final span of its entity (the positions the
\* membership mask marks for it) and nowhere else, holds i - start before
\* them and i - end + 1 after them, start and end being the packed ones.
\* (Violated: the channel uses the span without the offset for [CLS], so
\* its zeros lie one position before the span.)
DistanceZeroOnSpan ==
    ProducedClean =>
      \A e \in 1..2 :
        LET start == loc.new_entity_pos[e][1] + 1
            end   == loc.new_entity_pos[e][2] + 1
        IN  /\ NonDecreasing(DistanceChannel(e))
            /\ \A k \in 1..max_seq_length :
                 LET i == k - 1
                 IN  DistanceChannel(e)[k] =
                       (IF i < start THEN i - start
                        ELSE IF i < end THEN 0 ELSE i - end + 1)

\* the length of the packed sequence, padding not counted
RealLen == Len(loc.tokens)

\* C8 as claimed: every channel of a record is 0 from the real length on.
AllZeroBeyondReal ==
    ProducedClean =>
      \A k \in (RealLen + 1)..max_seq_length :
        /\ \A x \in Channels(Rec) : x[k] = 0
        /\ loc.entity_seg_pos[k] = 0

\* C8 amended: the token ids, the attention mask, the segment ids, the
\* membership mask and both span-tag channels are 0 from the real length
\* on; the two signed-distance channels are not: they hold i - end + 1
\* there, which is positive.
ZeroBeyondRealButDistance ==
    Produced =>
      \A k \in (RealLen + 1)..max_seq_length :
        /\ Rec.input_ids[k] = 0
        /\ Rec.input_mask[k] = 0
        /\ Rec.segment_ids[k] = 0
        /\ Rec.entity_mask[k] = 0
        /\ Rec.entity_seg_pos[k] = 0
        /\ loc.entity_seg_pos[k] = 0
        /\ \A e \in 1..2 :
             /\ DistanceChannel(e)[k] = (k - 1) - loc.new_entity_pos[e][2] + 1
             /\ DistanceChannel(e)[k] > 0

\* a record of a pair of texts with padding after an entity that ends the
\* primary text
ZeroBeyondRealWitness ==
    /\ Produced
    /\ RealLen + 1 < max_seq_length
    /\ loc.tokens_b # << >>
    /\ loc.new_entity_pos[2][2] = Len(loc.tokens_a)
    /\ Rec.entity_span2_pos[max_seq_length] > 0

\* a subword token without its continuation marker
StripContinuation(tok) ==
    IF Len(tok) > 2 /\ tok[1] = "#" /\ tok[2] = "#"
    THEN SubSeq(tok, 3, Len(tok)) ELSE tok

\* the text over the realigned span of entity e, continuation markers
\* stripped and lower-cased, is the lower-cased text over its whitespace span
RoundTrip(e) ==
    LET span  == loc.new_entity_pos_[e]
        old   == loc.example.entity_pos[e]
        toks  == SubSeq(loc.tokens_a_, span[1] + 1, span[2])
        words == SubSeq(PySplit(loc.example.text_a), old[1] + 1, old[2])
    IN  PyLower(PyJoin([i \in 1..Len(toks) |-> StripContinuation(toks[i])]))
        = PyLower(PyJoin(words))

\* C9 as claimed: the alignment check passes exactly when both entities
\* make the round trip, case ignored on both sides and nothing but
\* continuation markers removed.  (Violated: the subword side is never
\* lower-cased, and once either entity holds '##' every '#' is removed from
\* both.)
AlignmentCheckIsRoundTrip ==
    loc.ran => (loc.align_ok <=> (RoundTrip(1) /\ RoundTrip(2)))

\* a step that ran the loop body on an example whose alignment check failed
AlignmentFailedStep ==
    /\ pc = "loop"
    /\ pc' = "raised" \/ Len(features') > Len(features)
    /\ ~loc'.align_ok

\* C10 as claimed: a failed alignment check ends the call with an error
\* raised at the check: no record for the example, no later example, its
\* entities in neither set, no graph.  (Violated: the check drops into the
\* debugger, and on "continue" the pass goes on with the misaligned spans.)
AlignmentFailureIsFatal ==
    [][AlignmentFailedStep =>
         /\ pc' = "raised"
         /\ loc'.reached = "align"
         /\ features' = features
         /\ ex_index' = ex_index
         /\ entity_set' = entity_set
         /\ entity_pair_set' = entity_pair_set
         /\ graph' = NoGraph]_vars

\* a step that ran the loop body on an aligned example whose second marked
\* span ends after max_seq_length - 3
OverflowStep ==
    /\ pc = "loop"
    /\ pc' = "raised" \/ Len(features') > Len(features)
    /\ loc'.align_ok
    /\ loc'.new_entity_pos[2][2] > max_seq_length - 3

\* C11 as claimed: when the end of entity 2 after the insertions exceeds
\* max_seq_length - 3 the call ends with an error raised at the check, before
\* truncation: no record for the example, its keys in neither set, no later
\* example, no graph.  (Violated: the check drops into the debugger, and on
\* "continue" the example is truncated, packed and recorded.)
OverflowIsFatal ==
    [][OverflowStep =>
         /\ pc' = "raised"
         /\ loc'.reached = "overflow"
         /\ loc'.tokens = << >>
         /\ features' = features
         /\ ex_index' = ex_index
         /\ entity_set' = entity_set
         /\ entity_pair_set' = entity_pair_set
         /\ graph' = NoGraph]_vars

\* the last pass packed an aligned example that passed the overflow check
PackedClean ==
    /\ loc.ran
    /\ loc.tokens # << >>
    /\ loc.align_ok
    /\ loc.new_entity_pos[2][2] <= max_seq_length - 3

\* C12 as claimed: once the overflow check has passed, with a secondary
\* text or without, the retained primary tokens still hold both marked
\* spans whole: the end of each span is within tokens_a and tokens_a agrees
\* with the marked sequence up to the end of entity 2.  (Violated: with a
\* secondary text the pair is cut to max_seq_length - 3 by popping from the
\* longer list, which is the primary one.)
TruncationKeepsSpans ==
    PackedClean =>
      /\ \A e \in 1..2 : loc.new_entity_pos[e][2] <= Len(loc.tokens_a)
      /\ SubSeq(loc.tokens_a, 1, Min(loc.new_entity_pos[2][2], Len(loc.tokens_a)))
           = SubSeq(loc.marked, 1, loc.new_entity_pos[2][2])

\* the last pass ran up to the label resolution of lines 637-643
AtLabel == loc.ran /\ loc.reached \in {"label", "end"}

\* the label of the example of the last pass is in the label list
LabelKnown == \E i \in 1..Len(LabelList) : LabelList[i] = loc.example.label

\* C13: in classification mode the label of a record is the index of the
\* example's label in the label list, and a label that is not in the list
\* raises KeyError out of the call: no record for the example, nothing
\* returned; in regression mode the label of a record is the number the
\* example's label denotes; in any other mode the pass raises KeyError.
LabelResolution ==
    AtLabel =>
      /\ (output_mode = "classification" /\ LabelKnown) =>
            /\ Produced
            /\ Rec.label_id \in 0..(Len(LabelList) - 1)
            /\ LabelList[Rec.label_id + 1] = loc.example.label
      /\ (output_mode = "classification" /\ ~LabelKnown) =>
            /\ pc = "raised" /\ error = "KeyError"
            /\ Len(features) = ex_index
            /\ graph = NoGraph
      /\ (output_mode = "regression" /\ Produced) =>
            /\ loc.example.label = "0" => Rec.label_id = 0
            /\ loc.example.label = "1" => Rec.label_id = 1
            /\ loc.example.label \in {"0", "1"}
      /\ output_mode \notin {"classification", "regression"} =>
            /\ pc = "raised" /\ error = "KeyError"
            /\ graph = NoGraph

\* a classification pass over an encodable example stopped by a label that
\* is not in the list
LabelResolutionWitness ==
    /\ AtLabel
    /\ output_mode = "classification"
    /\ loc.example.label = "x"
    /\ loc.align_ok /\ ~loc.overflow
    /\ pc = "raised" /\ error = "KeyError"
    /\ entity_set # {}

\* the token ids of the record at the packed positions of the final span
\* of entity e
PackedSpanIds(e) ==
    [i \in 1..(loc.new_entity_pos[e][2] - loc.new_entity_pos[e][1]) |->
       Rec.input_ids[loc.new_entity_pos[e][1] + 1 + i]]

\* C14 as claimed: the token ids each entity contributes to the graph are
\* the ids of the record at the packed positions of its final span: the id
\* of its start marker, the ids of its subword tokens and the id of its end
\* marker, and the key added to the entity set is the string of these ids.
\* (Violated: the slice is taken at the span without the offset for [CLS],
\* so it starts one token early and misses the end marker.)
EntityIdsAreSpanIds ==
    ProducedClean =>
      /\ loc.entity_token_ids0 = PackedSpanIds(1)
      /\ loc.entity_token_ids1 = PackedSpanIds(2)
      /\ \A e \in 1..2 :
           loc.new_entity_pos[e][2] <= Len(loc.tokens_a) =>
             convert_id_list_to_str(
               ConvertTokensToIds(<<IF e = 1 THEN S1 ELSE S2>> \o EntityTokens(e)
                                  \o <<IF e = 1 THEN E1 ELSE E2>>))
             \in entity_set

\* the token ids of the mention of entity e in example k: the ids of the
\* subword tokens over its realigned span
Mention(k, e) ==
    LET tok == TokenizeWithPos(examples[k].text_a, examples[k].entity_pos,
                               do_lower_case)
    IN  ConvertTokensToIds(PySlice(tok.tokens, tok.pos[e][1], tok.pos[e][2]))

\* example k has no secondary text, aligns and passes the overflow check
CleanExample(k) ==
    LET tok == TokenizeWithPos(examples[k].text_a, examples[k].entity_pos,
                               do_lower_case)
    IN  /\ examples[k].text_b = << >>
        /\ AlignmentHolds(examples[k].text_a, examples[k].entity_pos,
                          tok.tokens, tok.pos)
        /\ ~Overflows(InsertMarkers(tok.tokens, tok.pos).pos, max_seq_length)

\* every example has been accumulated, each of them clean, and no mention
\* occurs both as entity 1 and as entity 2
AccumulatedClean ==
    /\ pc # "raised"
    /\ ex_index = Len(examples)
    /\ \A k \in 1..Len(examples) : CleanExample(k)
    /\ \A j, k \in 1..Len(examples) : Mention(j, 1) # Mention(k, 2)

\* C15 as claimed: the nodes of the graph are the mentions: two mentions in
\* the same slot are one node exactly when their token-id sequences are
\* equal, whatever surrounds them, so the entity set has one key per
\* distinct mention and the pair set one element per distinct pair of
\* mentions (A with B and A with C: 3 entities, 2 pairs).  (Violated: the
\* key of a mention holds the token before its start marker.)
NodesAreMentions ==
    AccumulatedClean =>
      /\ Cardinality(entity_set) =
           Cardinality({Mention(k, e) : k \in 1..Len(examples), e \in 1..2})
      /\ Cardinality(entity_pair_set) =
           Cardinality({<<Mention(k, 1), Mention(k, 2)>> : k \in 1..Len(examples)})

\* C16 as claimed: the pair set holds at most one element for any two
\* entity keys: no two of its elements join the same two keys, so a pair
\* seen as (a, b) and as (b, a) is there once.  (Violated: the elements are
\* the tuples (e0, e1), and both orders are kept.)
PairsUnordered ==
    \A p, q \in entity_pair_set :
       {p[1], p[2]} = {q[1], q[2]} => p = q

\* the keys a and b were the two entities of some example
CoOccurred(a, b) ==
    <<a, b>> \in entity_pair_set \/ <<b, a>> \in entity_pair_set

\* C17 as claimed: the adjacency matrix built at finalization, before the
\* self-loops are added, is symmetric, is 1 off the diagonal exactly for
\* the entities that co-occurred in an example, and is 0 on the diagonal.
\* (Violated: an example whose two keys are equal puts 1 on the diagonal.)
AdjacencyOfCoOccurrence ==
    pc = "returned" =>
      LET A == graph.adjacency
          L == graph.entity_list
      IN  \A i, j \in 1..Len(L) :
            /\ A[i][j] = A[j][i]
            /\ A[i][j] \in {0, 1}
            /\ i # j => (A[i][j] = 1 <=> CoOccurred(L[i], L[j]))
            /\ A[i][i] = 0

\* the number of entities other than the one at i that co-occurred with it
Neighbours(i) ==
    Cardinality({j \in 1..Len(graph.entity_list) :
                   j # i /\ CoOccurred(graph.entity_list[i], graph.entity_list[j])})

\* C18 as claimed: the degree returned for an entity is the number of
\* distinct other entities it co-occurred with; the entity itself is never
\* counted.  (Violated: an example whose two keys are equal counts the
\* entity in its own degree.)
DegreeCountsOthers ==
    pc = "returned" =>
      \A i \in 1..Len(graph.entity_list) : graph.degree[i] = Neighbours(i)

\* an entry num / sqrt(den2) of the normalized matrix is positive, is at
\* most 1
EntryPositive(x) == x.num > 0
EntryAtMostOne(x) == x.den2 > 0 /\ x.num * x.num <= x.den2

\* C19 as claimed: every entry of the normalized matrix returned lies in
\* (0, 1], also when some two entities never co-occur.
SpectralInUnitInterval ==
    pc = "returned" =>
      \A i, j \in 1..Len(graph.entity_list) :
         EntryPositive(graph.spectral[i][j]) /\ EntryAtMostOne(graph.spectral[i][j])

\* C19 amended: every entry of the normalized matrix lies in [0, 1]; it is
\* positive on the diagonal and for two entities that co-occurred in some
\* example, and it is 0 for two distinct entities that never co-occurred.
SpectralZeroOffCoOccurrence ==
    pc = "returned" =>
      \A i, j \in 1..Len(graph.entity_list) :
         /\ graph.spectral[i][j].num >= 0
         /\ EntryAtMostOne(graph.spectral[i][j])
         /\ EntryPositive(graph.spectral[i][j]) <=>
              (i = j \/ CoOccurred(graph.entity_list[i], graph.entity_list[j]))

\* a graph of three entities or more, two of which never co-occurred while
\* both co-occurred with a third
SpectralZeroWitness ==
    /\ pc = "returned"
    /\ Len(graph.entity_list) >= 3
    /\ \E i, j, k \in 1..Len(graph.entity_list) :
         /\ i # j
         /\ graph.spectral[i][j].num = 0
         /\ EntryPositive(graph.spectral[i][i])
         /\ EntryPositive(graph.spectral[i][k])
         /\ graph.degree[k] = 2

\* the two keys example k adds to the entity set
ExampleKeys(k) ==
    LET r == LoopBody(examples[k], LabelList, max_seq_length, output_mode,
                      do_lower_case, "continue", "continue")
    IN  <<r.e0, r.e1>>

\* the graph returned is the graph of all the examples: one node per key
\* of the entity set, the keys of every example among them and adjacent
GraphOfAllExamples ==
    LET L == graph.entity_list
    IN  /\ ex_index = Len(examples)
        /\ Len(features) = Len(examples)
        /\ Len(L) = Cardinality(entity_set)
        /\ {L[i] : i \in 1..Len(L)} = entity_set
        /\ Len(graph.degree) = Len(L)
        /\ Len(graph.spectral) = Len(L)
        /\ \A k \in 1..Len(examples) :
             \E keys \in {ExampleKeys(k)} :
                \E i, j \in 1..Len(L) :
                   /\ L[i] = keys[1]
                   /\ L[j] = keys[2]
                   /\ graph.adjacency[i][j] = 1
                   /\ graph.adjacency[j][i] = 1

\* C20: in every run the finalization starts only once every example has
\* been accumulated and it runs once: the step that returns starts from the
\* end of the loop with no graph built yet, nothing happens after it, and
\* the entity list, degrees and matrix returned are those of the entities
\* and pairs of all the examples.
FinalizedOnceAfterAll ==
    /\ [](pc = "returned" => GraphOfAllExamples)
    /\ [][/\ pc = "loop"
          /\ (pc' = "returned" \/ graph' # graph) =>
               /\ ex_index = Len(examples)
               /\ graph = NoGraph
               /\ pc' = "returned"
               /\ entity_set' = entity_set
               /\ entity_pair_set' = entity_pair_set
               /\ features' = features]_vars

\* a graph returned for two examples that share an entity
FinalizedOnceWitness ==
    /\ pc = "returned"
    /\ Len(examples) = 2
    /\ Len(features) = 2
    /\ Len(graph.entity_list) = 3
    /\ \E i \in 1..3 : graph.degree[i] = 2

\* the record of example k taken alone
ExampleRecord(k) ==
    LoopBody(examples[k], LabelList, max_seq_length, output_mode,
             do_lower_case, "continue", "continue").feature

\* the orders in which n examples can be given
Orders(n) == ListsOf(1..n)

\* the entity set and the pair set after the first n examples taken in the
\* given order
RECURSIVE SetsAfter(_, _)
SetsAfter(order, n) ==
    IF n = 0 THEN [entities |-> {}, pairs |-> {}]
    ELSE LET prev == SetsAfter(order, n - 1)
             keys == ExampleKeys(order[n])
         IN  [entities |-> prev.entities \cup {keys[1], keys[2]},
              pairs    |-> prev.pairs \cup {keys}]

\* C21: the record of an example depends on that example and on the
\* configuration only, whatever examples come before it; the entity set and
\* the pair set are the same in whatever order the examples are taken; the
\* graph is determined by the two sets and the order of the entity list:
\* permuting the examples can only permute its indices.
OrderIndependent ==
    pc = "returned" =>
      /\ \A k \in 1..Len(examples) : features[k] = ExampleRecord(k)
      /\ \A order \in Orders(Len(examples)) :
            SetsAfter(order, Len(examples))
              = [entities |-> entity_set, pairs |-> entity_pair_set]
      /\ LET L == graph.entity_list
         IN  /\ {L[i] : i \in 1..Len(L)} = entity_set
             /\ \A i, j \in 1..Len(L) :
                  /\ graph.adjacency[i][j] =
                       (IF CoOccurred(L[i], L[j]) THEN 1 ELSE 0)
                  /\ graph.spectral[i][j].num =
                       graph.adjacency[i][j] + (IF i = j THEN 1 ELSE 0)
                  /\ graph.spectral[i][j].den2 =
                       (graph.degree[i] + 1) * (graph.degree[j] + 1)
             /\ \A i \in 1..Len(L) :
                  graph.degree[i] =
                     Cardinality({j \in 1..Len(L) : CoOccurred(L[i], L[j])})

\* a graph returned for two different examples, each bringing its own two
\* keys
OrderIndependentWitness ==
    /\ pc = "returned"
    /\ Len(examples) = 2
    /\ features[1] # features[2]
    /\ Cardinality(entity_set) = 4
    /\ Cardinality(entity_pair_set) = 2

\* seq is an initial part of orig
IsPrefix(seq, orig) ==
    Len(seq) <= Len(orig) /\ seq = SubSeq(orig, 1, Len(seq))

\* the call of the truncation scenario has returned
ScenarioDone ==
    /\ truncation.pc = "done"
    /\ Len(truncation.orig_a) = 100
    /\ Len(truncation.orig_b) = 10
    /\ truncation.max_length = 17

\* C22 as claimed: with 100 primary tokens, 10 secondary tokens and
\* max_seq_length 20 the pair truncation ends with 17 tokens in all, the
\* secondary list untouched at its 10 tokens and the primary list alone cut
\* down.  (Violated: from the tie at 10 and 10 on the two lists lose tokens
\* in turn.)
ScenarioSecondaryUntouched ==
    ScenarioDone =>
      /\ total_length = 17
      /\ truncation.tokens_b = truncation.orig_b
      /\ Len(truncation.tokens_b) = 10
      /\ Len(truncation.tokens_a) = 7
      /\ IsPrefix(truncation.tokens_a, truncation.orig_a)

\* C22 amended: with 100 primary tokens, 10 secondary tokens and
\* max_seq_length 20 the pair truncation ends with 17 tokens in all: the
\* first 9 primary tokens and the first 8 secondary tokens.
ScenarioBothCut ==
    ScenarioDone =>
      /\ total_length = 17
      /\ truncation.tokens_a = SubSeq(truncation.orig_a, 1, 9)
      /\ truncation.tokens_b = SubSeq(truncation.orig_b, 1, 8)

\* the scenario call returned with a secondary list that lost tokens
ScenarioBothCutWitness ==
    /\ ScenarioDone
    /\ Len(truncation.tokens_a) < 100
    /\ Len(truncation.tokens_b) < 10

\* the state of a call with a budget that is not negative
TruncateState ==
    /\ truncation.pc # "raised"
    /\ IsPrefix(truncation.tokens_a, truncation.orig_a)
    /\ IsPrefix(truncation.tokens_b, truncation.orig_b)
    /\ truncation.pc = "done" =>
         /\ total_length = Min(Len(truncation.orig_a) + Len(truncation.orig_b),
                               truncation.max_length)
         /\ \E r \in {truncate_seq_pair(truncation.orig_a, truncation.orig_b,
                                        truncation.max_length)} :
               /\ ~r.raised
               /\ r.a = truncation.tokens_a
               /\ r.b = truncation.tokens_b

\* an iteration drops the last token of one list: of the primary one when
\* it is strictly longer, of the secondary one otherwise
TruncateIteration ==
    LET a == truncation.tokens_a
        b == truncation.tokens_b
    IN  IF Len(a) > Len(b)
        THEN /\ truncation'.tokens_a = SubSeq(a, 1, Len(a) - 1)
             /\ truncation'.tokens_b = b
        ELSE /\ truncation'.tokens_a = a
             /\ truncation'.tokens_b = SubSeq(b, 1, Len(b) - 1)
             /\ b # << >>

\* C23: with a budget >= 0 _truncate_seq_pair terminates on every input; each
\* list stays an initial part of what it was; the lists returned hold
\* min(original combined length, budget) tokens; every iteration that drops
\* a token drops the last one of the primary list exactly when the primary
\* list is strictly longer than the secondary one, and the last one of the
\* secondary list otherwise, so also on a tie.
TruncateContract ==
    /\ [](truncation.max_length >= 0 => TruncateState)
    /\ [][(truncation.max_length >= 0 /\ truncation.pc = "while") =>
            \/ /\ total_length <= truncation.max_length
               /\ truncation' = [truncation EXCEPT !.pc = "done"]
            \/ /\ total_length > truncation.max_length
               /\ truncation'.pc = "while"
               /\ TruncateIteration]_vars
    /\ (truncation.max_length >= 0) ~> (truncation.pc = "done")

\* a call on short lists that returned after both lists lost tokens, from
\* a tie
TruncateContractWitness ==
    /\ truncation.pc = "done"
    /\ truncation.max_length > 0
    /\ Len(truncation.orig_a) = Len(truncation.orig_b)
    /\ Len(truncation.orig_a) <= MaxTruncLen
    /\ Len(truncation.tokens_a) < Len(truncation.orig_a)
    /\ Len(truncation.tokens_b) < Len(truncation.tokens_a)

\* the entry (i, j) of A + I for the entity list L
WithSelfLoops(L, i, j) ==
    (IF CoOccurred(L[i], L[j]) THEN 1 ELSE 0) + (IF i = j THEN 1 ELSE 0)

\* C24: the entity list, the degree vector and the normalized matrix of one
\* call are indexed alike: the list holds every entity once; S is symmetric,
\* non-zero on the diagonal and, off it, non-zero exactly for the entities of
\* the list that co-occurred; S[i][j] is (A + I)[i][j] over the square
\* root of (deg[i] + 1)(deg[j] + 1); degree[i] is the row sum of A for
\* entity_list[i].
SharedOrdering ==
    pc = "returned" =>
      LET L == graph.entity_list
          S == graph.spectral
          n == Len(L)
      IN  /\ Len(graph.degree) = n /\ Len(S) = n
          /\ \A i \in 1..n : Len(S[i]) = n
          /\ \A i, j \in 1..n : L[i] = L[j] => i = j
          /\ {L[i] : i \in 1..n} = entity_set
          /\ \A i \in 1..n :
               /\ S[i][i].num # 0
               /\ graph.degree[i] =
                    Cardinality({j \in 1..n : CoOccurred(L[i], L[j])})
          /\ \A i, j \in 1..n :
               /\ S[i][j] = S[j][i]
               /\ i # j => (S[i][j].num # 0 <=> CoOccurred(L[i], L[j]))
               /\ S[i][j].num = WithSelfLoops(L, i, j)
               /\ S[i][j].den2 = (graph.degree[i] + 1) * (graph.degree[j] + 1)

\* a graph of three entities whose list does not start with the entity of
\* the largest degree
SharedOrderingWitness ==
    /\ pc = "returned"
    /\ Len(graph.entity_list) = 3
    /\ graph.degree[1] = 1
    /\ graph.degree[3] = 2
    /\ graph.spectral[1][2].num = 0
    /\ graph.spectral[1][3].num = 1

\* the last pass packed an example with entity 1 ending at or before the
\* start of entity 2, the end of entity 2 within max_seq_length - 3
PackedWithinBudget ==
    /\ loc.ran
    /\ loc.tokens # << >>
    /\ loc.new_entity_pos_[1][2] <= loc.new_entity_pos_[2][1]
    /\ loc.new_entity_pos[2][2] <= max_seq_length - 3

\* the indices written into the membership mask and the two tag channels
WrittenIndices ==
    UNION {((loc.new_entity_pos[e][1] + 1)..loc.new_entity_pos[e][2])
           \cup {loc.new_entity_pos[e][1] + 1, loc.new_entity_pos[e][2] + 1} :
           e \in 1..2}

\* C25: for an example whose entity 1 ends at or before the start of entity
\* 2 and that passes the overflow check, every index written into the
\* membership mask and the two span-tag channels is within
\* [0, max_seq_length): the writes of lines 566-600 raise no IndexError and
\* the pass goes on to the length assertions.
WritesInRange ==
    PackedWithinBudget =>
      /\ \A i \in WrittenIndices : 0 <= i /\ i < max_seq_length
      /\ loc.reached \notin {"mask", "tags"}
      /\ error # "IndexError"
      /\ Len(loc.entity_seg_pos) >= max_seq_length

\* a record whose entity 2 ends exactly at max_seq_length - 3: the last end
\* tag is written at max_seq_length - 2
WritesInRangeWitness ==
    /\ Produced
    /\ PackedWithinBudget
    /\ loc.new_entity_pos[2][2] = max_seq_length - 3
    /\ Rec.entity_seg_pos[max_seq_length - 1] = 2
    /\ Rec.entity_mask[max_seq_length - 2] = 1

\* the keys of the examples of the call that is running
CallKeys == UNION {{ExampleKeys(k)[1], ExampleKeys(k)[2]} : k \in 1..Len(examples)}

\* the key pairs of the examples of the call that is running
CallPairs == {ExampleKeys(k) : k \in 1..Len(examples)}

\* C26: each call of convert_examples_to_features starts from an empty
\* entity set and an empty pair set, and the graph it returns has only the
\* entities and the pairs of its own examples, also for the eval call that
\* follows the train call: every node is a key of one of the call's
\* examples and two nodes are adjacent only if they are the pair of one of
\* the call's examples.
CallGraphOwnExamples ==
    /\ (pc = "loop" /\ ex_index = 0) =>
          (entity_set = {} /\ entity_pair_set = {} /\ features = << >>)
    /\ pc = "returned" =>
          \E keys \in {CallKeys}, pairs \in {CallPairs} :
             LET L == graph.entity_list
             IN  /\ entity_set = keys
                 /\ entity_pair_set = pairs
                 /\ {L[i] : i \in 1..Len(L)} = keys
                 /\ \A i, j \in 1..Len(L) :
                      graph.adjacency[i][j] = 1 =>
                         (<<L[i], L[j]>> \in pairs \/ <<L[j], L[i]>> \in pairs)

\* the eval call has returned a graph that lacks an entity of the train graph
CallGraphOwnExamplesWitness ==
    /\ caller.split = "eval"
    /\ pc = "returned"
    /\ Len(graph.entity_list) > 0
    /\ \E i \in 1..Len(caller.train.entity_list) :
          \A j \in 1..Len(graph.entity_list) :
             graph.entity_list[j] # caller.train.entity_list[i]

\* C27: convert_id_list_to_str is injective on lists of non-negative ids:
\* the keys of two id lists are equal if and only if the lists are equal
\* element by element, so [12,3] and [1,23] get different keys.
KeyInjective ==
    canon.pc = "done" =>
       ((canon.key_a = canon.key_b) <=> (canon.id_list_a = canon.id_list_b))

\* the keys of [12,3] and [1,23] were computed and differ
KeyInjectiveWitness ==
    /\ canon.pc = "done"
    /\ canon.id_list_a = <<12, 3>>
    /\ canon.id_list_b = <<1, 23>>
    /\ canon.key_a = <<"1", "2", "_", "3", "_">>
    /\ canon.key_b = <<"1", "_", "2", "3", "_">>

====
